---- MODULE Spec2Model ----
(***************************************************************************)
(* Booking ledger of servy-backend: the bookings table and the handlers of *)
(* booking_routes.py, together with the service handlers of main.py that   *)
(* write the services table the ledger reads.                              *)
(*                                                                         *)
(* Text is modelled as a sequence of one-character strings, so that the    *)
(* parsing done by datetime.strptime and the text comparison done by the   *)
(* SQL queries are different functions of the same value.                  *)
(***************************************************************************)
EXTENDS Integers, Sequences, FiniteSets, TLC

VARIABLES
    now,          \* the wall clock read by datetime.now()
    services,     \* rows of table services
    bookings,     \* rows of table bookings
    booking_seq,  \* AUTOINCREMENT counter of table bookings
    resp,         \* the last request handled and its HTTP response
    pc,           \* position of each in-flight create_booking request
    local,        \* local variables of each in-flight create_booking request
    ticks,        \* number of clock steps taken
    timeslots,    \* local variables of the get_available_timeslots call in flight
    service_reviews  \* rows of table service_reviews

vars ==
    <<now, services, bookings, booking_seq, resp, pc, local, ticks, timeslots,
      service_reviews>>

----------------------------------------------------------------------------
(* Bounds of the model *)

MaxBookings == 2
MaxTicks == 2
MaxProcs == 2
MaxSlots == 25

----------------------------------------------------------------------------
(* Text and its parsing (datetime.strptime) *)

Digits == <<"0", "1", "2", "3", "4", "5", "6", "7", "8", "9">>

IsDigit(c) == \E i \in 1..10 : Digits[i] = c

DigitVal(c) == (CHOOSE i \in 1..10 : Digits[i] = c) - 1

AllDigits(s) == \A i \in 1..Len(s) : IsDigit(s[i])

RECURSIVE NumVal(_)
NumVal(s) ==
    IF Len(s) = 0 THEN 0
    ELSE 10 * NumVal(SubSeq(s, 1, Len(s) - 1)) + DigitVal(s[Len(s)])

\* The pieces of s between occurrences of the separator sep.
RECURSIVE Split(_, _)
Split(s, sep) ==
    IF \E i \in 1..Len(s) : s[i] = sep
    THEN LET i == CHOOSE k \in 1..Len(s) :
                      s[k] = sep /\ \A j \in 1..(k - 1) : s[j] # sep
         IN <<SubSeq(s, 1, i - 1)>> \o Split(SubSeq(s, i + 1, Len(s)), sep)
    ELSE <<s>>

\* JSON null, and a value that is no string, where text is expected.
NoneText == <<"None">>

\* The result of a strptime that raised ValueError.
ValueError == [error |-> "ValueError"]

IsLeap(y) == (y % 4 = 0 /\ y % 100 # 0) \/ y % 400 = 0

DaysInMonth(y, m) ==
    IF m = 2 THEN (IF IsLeap(y) THEN 29 ELSE 28)
    ELSE IF m \in {4, 6, 9, 11} THEN 30 ELSE 31

\* %d also accepts a blank followed by one digit 1-9.
DayField(s) ==
    IF Len(s) = 2 /\ s[1] = " " THEN SubSeq(s, 2, 2) ELSE s

\* datetime.strptime(text, '%Y-%m-%d').date()
ParseDate(text) ==
    LET p == Split(text, "-")
    IN IF Len(p) # 3 THEN ValueError
       ELSE LET ys == p[1]
                ms == p[2]
                ds == DayField(p[3])
            IN IF /\ Len(ys) = 4 /\ AllDigits(ys)
                  /\ Len(ms) \in {1, 2} /\ AllDigits(ms)
                  /\ Len(ds) \in {1, 2} /\ AllDigits(ds)
                  /\ NumVal(ys) >= 1
                  /\ NumVal(ms) \in 1..12
                  /\ (Len(p[3]) # Len(ds) => NumVal(ds) \in 1..9)
                  /\ NumVal(ds) \in 1..DaysInMonth(NumVal(ys), NumVal(ms))
               THEN [y |-> NumVal(ys), mo |-> NumVal(ms), d |-> NumVal(ds)]
               ELSE ValueError

\* datetime.strptime(text, '%H:%M').time()
ParseTime(text) ==
    LET p == Split(text, ":")
    IN IF Len(p) # 2 THEN ValueError
       ELSE IF /\ Len(p[1]) \in {1, 2} /\ AllDigits(p[1])
               /\ Len(p[2]) \in {1, 2} /\ AllDigits(p[2])
               /\ NumVal(p[1]) \in 0..23
               /\ NumVal(p[2]) \in 0..59
            THEN [h |-> NumVal(p[1]), mi |-> NumVal(p[2])]
            ELSE ValueError

----------------------------------------------------------------------------
(* The wall clock.  datetime.now() carries seconds and microseconds; a     *)
(* datetime built by datetime.combine from a parsed '%H:%M' time has none. *)
(* Field us abstracts the part of the clock below the minute: 0 when it is *)
(* exactly zero, 1 when it is positive.                                    *)

Instant(y, mo, d, h, mi, us) ==
    [y |-> y, mo |-> mo, d |-> d, h |-> h, mi |-> mi, us |-> us]

\* datetime.now().date()
DateOf(t) == [y |-> t.y, mo |-> t.mo, d |-> t.d]

\* date < date
DateLT(a, b) ==
    \/ a.y < b.y
    \/ a.y = b.y /\ a.mo < b.mo
    \/ a.y = b.y /\ a.mo = b.mo /\ a.d < b.d

\* datetime.combine(date, time)
Combine(date, time) == Instant(date.y, date.mo, date.d, time.h, time.mi, 0)

\* datetime < datetime
InstantLT(a, b) ==
    \/ DateLT(DateOf(a), DateOf(b))
    \/ /\ DateOf(a) = DateOf(b)
       /\ \/ a.h < b.h
          \/ a.h = b.h /\ a.mi < b.mi
          \/ a.h = b.h /\ a.mi = b.mi /\ a.us < b.us

NextDay(t) ==
    IF t.d < DaysInMonth(t.y, t.mo) THEN [y |-> t.y, mo |-> t.mo, d |-> t.d + 1]
    ELSE IF t.mo < 12 THEN [y |-> t.y, mo |-> t.mo + 1, d |-> 1]
    ELSE [y |-> t.y + 1, mo |-> 1, d |-> 1]

\* The next value the clock shows: later within the same minute, then the
\* start of the next minute.
NextInstant(t) ==
    IF t.us = 0 THEN [t EXCEPT !.us = 1]
    ELSE IF t.mi < 59 THEN [t EXCEPT !.mi = t.mi + 1, !.us = 0]
    ELSE IF t.h < 23 THEN [t EXCEPT !.h = t.h + 1, !.mi = 0, !.us = 0]
    ELSE LET n == NextDay(t)
         IN Instant(n.y, n.mo, n.d, 0, 0, 0)

----------------------------------------------------------------------------
(* Tables and request values *)

\* JSON null where an id is expected.  AUTOINCREMENT ids start at 1.
NoneId == 0

\* Rows of table users and of table service_providers (approved providers).
\* No handler modelled here writes them.
users == {1}

service_providers == {[id |-> 1, verification_status |-> "approved"]}

valid_statuses ==
    {"pending", "approved", "rejected", "completed", "cancelled", "paid_deposit"}

required_fields == {"user_id", "service_id", "booking_date", "booking_time"}

\* Mutant: the conflict query forgets the pending bookings.
ConflictStatuses_NoPending == {"approved", "paid_deposit"}

\* The statuses the conflict query of create_booking counts.
ConflictStatuses == {"pending", "approved", "paid_deposit"}

\* The clock at start-up: 2026-11-30 23:59:00.000000, the last minute of a
\* month, so that a few steps of the clock cross a minute, a day and a month.
StartInstant == Instant(2026, 11, 30, 23, 59, 0)

TodayText == <<"2", "0", "2", "6", "-", "1", "1", "-", "3", "0">>
TomorrowText == <<"2", "0", "2", "6", "-", "1", "2", "-", "0", "1">>
TomorrowShortText == <<"2", "0", "2", "6", "-", "1", "2", "-", "1">>
YesterdayText == <<"2", "0", "2", "6", "-", "1", "1", "-", "2", "9">>
BadDateText == <<"2", "0", "2", "6", "-", "1", "1", "-", "3", "1">>

T2359 == <<"2", "3", ":", "5", "9">>
T0000 == <<"0", "0", ":", "0", "0">>
T000 == <<"0", ":", "0", "0">>
T0001 == <<"0", "0", ":", "0", "1">>
T2300 == <<"2", "3", ":", "0", "0">>
BadTimeText == <<"2", "4", ":", "0", "0">>

NotesText == <<"o", "k">>

Prices == {10, 20}

\* A JSON body of POST /create: keys are the keys present, the other fields
\* their values (of no meaning for an absent key).
Request(keys, user_id, service_id, booking_date, booking_time, booking_notes) ==
    [keys |-> keys, user_id |-> user_id, service_id |-> service_id,
     booking_date |-> booking_date, booking_time |-> booking_time,
     booking_notes |-> booking_notes]

AllKeys == required_fields \cup {"booking_notes"}

NoRequest == Request({}, NoneId, NoneId, NoneText, NoneText, NoneText)

\* A response that carries no data.
NoBody == <<>>

\* The last request handled: the handler, the body of a create_booking
\* request (NoRequest for the other handlers), the status code returned and
\* the data of the response.
Answer(op, code, req, body) ==
    [op |-> op, code |-> code, req |-> req, body |-> body]

Response(op, code, req) == Answer(op, code, req, NoBody)

----------------------------------------------------------------------------
(* create_booking, stage by stage *)

\* The texts the requests of this model carry, parsed once.
DateTexts ==
    {TodayText, TomorrowText, TomorrowShortText, YesterdayText, BadDateText}

TimeTexts == {T2359, T0000, T000, T0001, T2300, BadTimeText}

DateValue == [text \in DateTexts |-> ParseDate(text)]

TimeValue == [text \in TimeTexts |-> ParseTime(text)]

\* Mutant: the past check rejects the current instant too (<= for <).
Validate_RejectNow(req, t) ==
    IF \E f \in required_fields : f \notin req.keys THEN 400
    ELSE IF req.booking_date = NoneText THEN 500
    ELSE IF DateValue[req.booking_date] = ValueError THEN 400
    ELSE IF req.booking_time = NoneText THEN 500
    ELSE IF TimeValue[req.booking_time] = ValueError THEN 400
    ELSE IF DateLT(DateValue[req.booking_date], DateOf(t)) THEN 400
    ELSE IF ~InstantLT(t, Combine(DateValue[req.booking_date],
                                  TimeValue[req.booking_time])) THEN 400
    ELSE 0

\* Mutant: only the date is checked against the clock, not the time.
Validate_DateOnly(req, t) ==
    IF \E f \in required_fields : f \notin req.keys THEN 400
    ELSE IF req.booking_date = NoneText THEN 500
    ELSE IF DateValue[req.booking_date] = ValueError THEN 400
    ELSE IF req.booking_time = NoneText THEN 500
    ELSE IF TimeValue[req.booking_time] = ValueError THEN 400
    ELSE IF DateLT(DateValue[req.booking_date], DateOf(t)) THEN 400
    ELSE 0

\* Lines 49-71: 0 when the request passes, else the status code returned.
\* A null date or time makes strptime raise TypeError, which only the outer
\* handler catches.
Validate(req, t) ==
    IF \E f \in required_fields : f \notin req.keys THEN 400
    ELSE IF req.booking_date = NoneText THEN 500
    ELSE IF DateValue[req.booking_date] = ValueError THEN 400
    ELSE IF req.booking_time = NoneText THEN 500
    ELSE IF TimeValue[req.booking_time] = ValueError THEN 400
    ELSE IF DateLT(DateValue[req.booking_date], DateOf(t)) THEN 400
    ELSE IF InstantLT(Combine(DateValue[req.booking_date],
                              TimeValue[req.booking_time]), t) THEN 400
    ELSE 0

\* Mutant: the lookup has lost its WHERE clause.
SelectService_Any(svcs, service_id) == svcs

\* SELECT provider_id, price FROM services WHERE id = ?
SelectService(svcs, service_id) == {s \in svcs : s.id = service_id}

\* SELECT COUNT(*) FROM bookings WHERE service_id = ? AND booking_date = ?
\* AND booking_time = ? AND status IN (...): the date and the time are
\* compared as the texts stored, not as the values parsed.
ConflictCount(bks, req) ==
    Cardinality({b \in bks : /\ b.service_id = req.service_id
                             /\ b.booking_date = req.booking_date
                             /\ b.booking_time = req.booking_time
                             /\ b.status \in ConflictStatuses})

\* Mutant: the notes of the request are not stored.
NewBooking_NoNotes(id, req, provider_id, service_price) ==
    [id |-> id,
     user_id |-> req.user_id,
     service_id |-> req.service_id,
     provider_id |-> provider_id,
     booking_date |-> req.booking_date,
     booking_time |-> req.booking_time,
     status |-> "pending",
     total_amount |-> service_price,
     booking_notes |-> NoneText]

\* The row of INSERT INTO bookings (...) VALUES (..., 'pending').
NewBooking(id, req, provider_id, service_price) ==
    [id |-> id,
     user_id |-> req.user_id,
     service_id |-> req.service_id,
     provider_id |-> provider_id,
     booking_date |-> req.booking_date,
     booking_time |-> req.booking_time,
     status |-> "pending",
     total_amount |-> service_price,
     booking_notes |-> IF "booking_notes" \in req.keys
                       THEN req.booking_notes ELSE NoneText]

\* user_id INTEGER NOT NULL: the INSERT of a null raises IntegrityError.
InsertFails(req) == req.user_id = NoneId

\* The SELECT ... JOIN services JOIN users JOIN service_providers of lines
\* 120-129 finds the row only if all three referenced rows exist.
Joined(b, svcs) ==
    /\ \E s \in svcs : s.id = b.service_id
    /\ b.user_id \in users
    /\ \E p \in service_providers : p.id = b.provider_id

\* Mutant: the service is looked up before the request is validated.
CreateBookingResult_ServiceFirst(req, t, svcs, bks, seq) ==
    LET v == Validate(req, t)
        found == SelectService(svcs, req.service_id)
    IN IF found = {} THEN [code |-> 404, rows |-> {}]
       ELSE IF v # 0 THEN [code |-> v, rows |-> {}]
       ELSE IF ConflictCount(bks, req) > 0 THEN [code |-> 409, rows |-> {}]
       ELSE IF InsertFails(req) THEN [code |-> 500, rows |-> {}]
       ELSE LET s == CHOOSE x \in found : TRUE
                b == NewBooking(seq + 1, req, s.provider_id, s.price)
            IN [code |-> IF Joined(b, svcs) THEN 201 ELSE 500, rows |-> {b}]

\* The whole handler run against one state of the database: the status code,
\* and the row inserted (a set of at most one row).  The INSERT is committed
\* before the joined row is read back, so a request whose joined row is not
\* found answers 500 with its row in the table.
CreateBookingResult(req, t, svcs, bks, seq) ==
    LET v == Validate(req, t)
        found == SelectService(svcs, req.service_id)
    IN IF v # 0 THEN [code |-> v, rows |-> {}]
       ELSE IF found = {} THEN [code |-> 404, rows |-> {}]
       ELSE IF ConflictCount(bks, req) > 0 THEN [code |-> 409, rows |-> {}]
       ELSE IF InsertFails(req) THEN [code |-> 500, rows |-> {}]
       ELSE LET s == CHOOSE x \in found : TRUE
                b == NewBooking(seq + 1, req, s.provider_id, s.price)
            IN [code |-> IF Joined(b, svcs) THEN 201 ELSE 500, rows |-> {b}]

----------------------------------------------------------------------------
(* The handlers, each run as one step *)

\* POST /api/booking/create
create_booking(req) ==
    LET r == CreateBookingResult(req, now, services, bookings, booking_seq)
    IN /\ r.rows # {} => booking_seq < MaxBookings
       /\ bookings' = bookings \cup r.rows
       /\ booking_seq' = booking_seq + Cardinality(r.rows)
       /\ resp' = Response("create_booking", r.code, req)
       /\ UNCHANGED <<now, services, pc, local, ticks, timeslots, service_reviews>>

\* Mutant: the handler does not look the booking up before the UPDATE.
update_booking_status_Unchecked(booking_id, data) ==
    LET code == IF "status" \notin data.keys THEN 400
                ELSE IF data.status \notin valid_statuses THEN 400
                ELSE 200
    IN /\ bookings' = IF code = 200
                      THEN {IF b.id = booking_id
                            THEN [b EXCEPT !.status = data.status] ELSE b :
                            b \in bookings}
                      ELSE bookings
       /\ resp' = Response("update_booking_status", code, NoRequest)
       /\ UNCHANGED <<now, services, booking_seq, pc, local, ticks, timeslots, service_reviews>>

\* Mutant: a cancelled, completed or rejected booking is final.
update_booking_status_Terminal(booking_id, data) ==
    LET code == IF "status" \notin data.keys THEN 400
                ELSE IF data.status \notin valid_statuses THEN 400
                ELSE IF \A b \in bookings : b.id # booking_id THEN 404
                ELSE IF \E b \in bookings :
                           /\ b.id = booking_id
                           /\ b.status \in {"cancelled", "completed", "rejected"}
                     THEN 400
                ELSE 200
    IN /\ bookings' = IF code = 200
                      THEN {IF b.id = booking_id
                            THEN [b EXCEPT !.status = data.status] ELSE b :
                            b \in bookings}
                      ELSE bookings
       /\ resp' = Response("update_booking_status", code, NoRequest)
       /\ UNCHANGED <<now, services, booking_seq, pc, local, ticks, timeslots, service_reviews>>

\* Mutant: the status sent is written without being validated.
update_booking_status_Unvalidated(booking_id, data) ==
    LET code == IF "status" \notin data.keys THEN 400
                ELSE IF \A b \in bookings : b.id # booking_id THEN 404
                ELSE 200
    IN /\ bookings' = IF code = 200
                      THEN {IF b.id = booking_id
                            THEN [b EXCEPT !.status = data.status] ELSE b :
                            b \in bookings}
                      ELSE bookings
       /\ resp' = Response("update_booking_status", code, NoRequest)
       /\ UNCHANGED <<now, services, booking_seq, pc, local, ticks, timeslots, service_reviews>>

\* Mutant: the UPDATE has lost its WHERE clause.
update_booking_status_NoWhere(booking_id, data) ==
    LET code == IF "status" \notin data.keys THEN 400
                ELSE IF data.status \notin valid_statuses THEN 400
                ELSE IF \A b \in bookings : b.id # booking_id THEN 404
                ELSE 200
    IN /\ bookings' = IF code = 200
                      THEN {[b EXCEPT !.status = data.status] : b \in bookings}
                      ELSE bookings
       /\ resp' = Response("update_booking_status", code, NoRequest)
       /\ UNCHANGED <<now, services, booking_seq, pc, local, ticks, timeslots, service_reviews>>

\* PUT /api/booking/<booking_id>/status with body data
update_booking_status(booking_id, data) ==
    LET code == IF "status" \notin data.keys THEN 400
                ELSE IF data.status \notin valid_statuses THEN 400
                ELSE IF \A b \in bookings : b.id # booking_id THEN 404
                ELSE 200
    IN /\ bookings' = IF code = 200
                      THEN {IF b.id = booking_id
                            THEN [b EXCEPT !.status = data.status] ELSE b :
                            b \in bookings}
                      ELSE bookings
       /\ resp' = Response("update_booking_status", code, NoRequest)
       /\ UNCHANGED <<now, services, booking_seq, pc, local, ticks, timeslots, service_reviews>>

\* Mutant: a price change is written through to the bookings of the service.
update_service_Reprice(service_id, data) ==
    LET code == IF \A s \in services : s.id # service_id THEN 404 ELSE 200
    IN /\ services' = IF code = 200 /\ "price" \in data.keys
                      THEN {IF s.id = service_id
                            THEN [s EXCEPT !.price = data.price] ELSE s :
                            s \in services}
                      ELSE services
       /\ bookings' = IF code = 200 /\ "price" \in data.keys
                      THEN {IF b.service_id = service_id
                            THEN [b EXCEPT !.total_amount = data.price] ELSE b :
                            b \in bookings}
                      ELSE bookings
       /\ resp' = Response("update_service", code, NoRequest)
       /\ UNCHANGED <<now, booking_seq, pc, local, ticks, timeslots, service_reviews>>

\* PUT /api/services/update/<service_id>: of the fields it may set, price is
\* the one the ledger reads.
update_service(service_id, data) ==
    LET code == IF \A s \in services : s.id # service_id THEN 404 ELSE 200
    IN /\ services' = IF code = 200 /\ "price" \in data.keys
                      THEN {IF s.id = service_id
                            THEN [s EXCEPT !.price = data.price] ELSE s :
                            s \in services}
                      ELSE services
       /\ resp' = Response("update_service", code, NoRequest)
       /\ UNCHANGED <<now, bookings, booking_seq, pc, local, ticks, timeslots, service_reviews>>

\* Mutant: deleting a service deletes its bookings with it.
delete_service_Cascade(service_id) ==
    LET code == IF \A s \in services : s.id # service_id THEN 404 ELSE 200
    IN /\ services' = {s \in services : s.id # service_id}
       /\ bookings' = {b \in bookings : b.service_id # service_id}
       /\ resp' = Response("delete_service", code, NoRequest)
       /\ UNCHANGED <<now, booking_seq, pc, local, ticks, timeslots, service_reviews>>

\* DELETE /api/services/delete/<service_id>
delete_service(service_id) ==
    LET code == IF \A s \in services : s.id # service_id THEN 404 ELSE 200
    IN /\ services' = {s \in services : s.id # service_id}
       /\ resp' = Response("delete_service", code, NoRequest)
       /\ UNCHANGED <<now, bookings, booking_seq, pc, local, ticks, timeslots, service_reviews>>

\* PUT /api/services/<service_id>/toggle-status
toggle_service_status(service_id) ==
    LET code == IF \A s \in services : s.id # service_id THEN 404 ELSE 200
    IN /\ services' = {IF s.id = service_id
                       THEN [s EXCEPT !.status = ~s.status] ELSE s :
                       s \in services}
       /\ resp' = Response("toggle_service_status", code, NoRequest)
       /\ UNCHANGED <<now, bookings, booking_seq, pc, local, ticks, timeslots, service_reviews>>

\* Time passes.
Tick ==
    /\ ticks < MaxTicks
    /\ now' = NextInstant(now)
    /\ ticks' = ticks + 1
    /\ resp' = Response("tick", 0, NoRequest)
    /\ UNCHANGED <<services, bookings, booking_seq, pc, local, timeslots, service_reviews>>

----------------------------------------------------------------------------
(* get_available_timeslots: the parameters are checked and the booked      *)
(* slots are read in one step; every iteration of the while loop is one    *)
(* step, because each reads the clock again.                               *)

\* request.args of GET /timeslots: keys are the parameters present.
Args(keys, service_id, date) ==
    Request(keys, NoneId, service_id, date, NoneText, NoneText)

\* time.strftime('%H:%M')
FormatTime(t) ==
    <<Digits[(t.h \div 10) + 1], Digits[(t.h % 10) + 1], ":",
      Digits[(t.mi \div 10) + 1], Digits[(t.mi % 10) + 1]>>

\* time <= time
TimeLE(a, b) == a.h < b.h \/ (a.h = b.h /\ a.mi <= b.mi)

\* (datetime.combine(datetime.min, t) + timedelta(hours=1)).time(): the date
\* is dropped, so one hour after 23:00 is 00:00.
PlusOneHour(t) == [t EXCEPT !.h = (t.h + 1) % 24]

end_time == TimeValue[T2300]

\* The statuses the query of get_available_timeslots selects.
SlotStatuses == {"pending", "approved"}

\* SELECT booking_time FROM bookings WHERE service_id = ? AND booking_date = ?
\* AND status IN ('pending', 'approved'), as the set booked_slots.
BookedSlots(bks, service_id, date) ==
    {b.booking_time : b \in {x \in bks : /\ x.service_id = service_id
                                          /\ x.booking_date = date
                                          /\ x.status \in SlotStatuses}}

\* No get_available_timeslots call is in flight.
NoTimeslots ==
    [pc |-> "idle", args |-> NoRequest, booking_date |-> ValueError,
     booked_slots |-> {}, current_time |-> TimeValue[T0000], all_slots |-> <<>>]

\* Lines 320-332: 0 when the parameters pass, else the status code returned.
\* A parameter is missing when it is absent or empty.
ValidateArgs(args, t) ==
    IF "service_id" \notin args.keys \/ "date" \notin args.keys THEN 400
    ELSE IF args.booking_date = <<>> THEN 400
    ELSE IF DateValue[args.booking_date] = ValueError THEN 400
    ELSE IF DateLT(DateValue[args.booking_date], DateOf(t)) THEN 400
    ELSE 0

\* GET /api/booking/timeslots, lines 320-352: up to the first test of the
\* loop condition.  Code 0 stands for a request that is not answered yet.
get_available_timeslots(args) ==
    /\ timeslots.pc = "idle"
    /\ IF ValidateArgs(args, now) # 0
       THEN /\ resp' = Response("get_available_timeslots",
                                ValidateArgs(args, now), args)
            /\ UNCHANGED timeslots
       ELSE /\ timeslots' =
                  [pc |-> "loop",
                   args |-> args,
                   booking_date |-> DateValue[args.booking_date],
                   booked_slots |-> BookedSlots(bookings, args.service_id,
                                                args.booking_date),
                   current_time |-> TimeValue[T0000],
                   all_slots |-> <<>>]
            /\ resp' = Response("get_available_timeslots", 0, args)
    /\ UNCHANGED <<now, services, bookings, booking_seq, pc, local, ticks, service_reviews>>

\* Lines 354-380: one test of the loop condition and the iteration or the
\* return that follows it.  The list grows until the append raises
\* MemoryError (MaxSlots entries fit), which the outer handler answers 500.
timeslots_loop ==
    /\ timeslots.pc = "loop"
    /\ LET current_time == timeslots.current_time
           slot == FormatTime(current_time)
           slot_datetime == Combine(timeslots.booking_date, current_time)
       IN IF ~TimeLE(current_time, end_time)
          THEN /\ resp' = Answer("get_available_timeslots", 200,
                                 timeslots.args, timeslots.all_slots)
               /\ timeslots' = NoTimeslots
          ELSE IF /\ timeslots.booking_date = DateOf(now)
                  /\ ~InstantLT(now, slot_datetime)
          THEN /\ timeslots' =
                     [timeslots EXCEPT !.current_time = PlusOneHour(current_time)]
               /\ UNCHANGED resp
          ELSE IF Len(timeslots.all_slots) >= MaxSlots
          THEN /\ resp' = Response("get_available_timeslots", 500,
                                   timeslots.args)
               /\ timeslots' = NoTimeslots
          ELSE /\ timeslots' =
                     [timeslots EXCEPT
                        !.all_slots = Append(@,
                            [time |-> slot,
                             available |-> slot \notin timeslots.booked_slots]),
                        !.current_time = PlusOneHour(current_time)]
               /\ UNCHANGED resp
    /\ UNCHANGED <<now, services, bookings, booking_seq, pc, local, ticks, service_reviews>>

----------------------------------------------------------------------------
(* The queries *)

\* Mutant: the notes of the booking are missing from the record returned.
get_booking_details_NoNotes(booking_id) ==
    LET rows == {b \in bookings : b.id = booking_id /\ Joined(b, services)}
    IN /\ resp' = IF rows = {}
                  THEN Response("get_booking_details", 404, NoRequest)
                  ELSE Answer("get_booking_details", 200, NoRequest,
                              [(CHOOSE b \in rows : TRUE)
                                  EXCEPT !.booking_notes = NoneText])
       /\ UNCHANGED <<now, services, bookings, booking_seq, pc, local, ticks,
                      timeslots, service_reviews>>

\* GET /api/booking/<booking_id>: the row joined with its service, its user
\* and its provider; the display columns of the three are left out.
get_booking_details(booking_id) ==
    LET rows == {b \in bookings : b.id = booking_id /\ Joined(b, services)}
    IN /\ resp' = IF rows = {}
                  THEN Response("get_booking_details", 404, NoRequest)
                  ELSE Answer("get_booking_details", 200, NoRequest,
                              CHOOSE b \in rows : TRUE)
       /\ UNCHANGED <<now, services, bookings, booking_seq, pc, local, ticks,
                      timeslots, service_reviews>>

\* The byte of a character: SQLite compares text byte by byte.
CharCode(c) ==
    IF c = " " THEN 32
    ELSE IF c = "-" THEN 45
    ELSE IF c = ":" THEN 58
    ELSE 48 + DigitVal(c)

\* text < text
RECURSIVE TextLT(_, _)
TextLT(a, b) ==
    IF Len(b) = 0 THEN FALSE
    ELSE IF Len(a) = 0 THEN TRUE
    ELSE IF a[1] = b[1] THEN TextLT(Tail(a), Tail(b))
    ELSE CharCode(a[1]) < CharCode(b[1])

\* The comparisons of the texts of this model, made once.
DateTextLT == [a \in DateTexts, b \in DateTexts |-> TextLT(a, b)]

TimeTextLT == [a \in TimeTexts, b \in TimeTexts |-> TextLT(a, b)]

\* ORDER BY b.booking_date DESC, b.booking_time DESC: row x may not come
\* before row y when x sorts lower than y.
SortsLower(x, y) ==
    \/ DateTextLT[x.booking_date, y.booking_date]
    \/ /\ x.booking_date = y.booking_date
       /\ TimeTextLT[x.booking_time, y.booking_time]

\* The orders in which the query may return rows: rows that compare equal
\* come in any order.
Orderings(rows) ==
    {seq \in [1..Cardinality(rows) -> rows] :
        /\ \A r \in rows : \E i \in 1..Cardinality(rows) : seq[i] = r
        /\ \A i \in 1..Cardinality(rows), j \in 1..Cardinality(rows) :
              i < j => ~SortsLower(seq[i], seq[j])}

\* request.args of the list queries: keys are the parameters present.
Filters(keys, status, start_date, end_date) ==
    [keys |-> keys, status |-> status, start_date |-> start_date,
     end_date |-> end_date]

\* GET /api/booking/provider/<provider_id>/bookings
get_provider_bookings(provider_id, args) ==
    LET rows == {b \in bookings :
                   /\ \E s \in services : s.id = b.service_id
                   /\ b.user_id \in users
                   /\ b.provider_id = provider_id
                   /\ "status" \in args.keys => b.status = args.status
                   /\ "start_date" \in args.keys
                         => ~DateTextLT[b.booking_date, args.start_date]
                   /\ "end_date" \in args.keys
                         => ~DateTextLT[args.end_date, b.booking_date]}
    IN /\ \E bookings_list \in Orderings(rows) :
             resp' = Answer("get_provider_bookings", 200, NoRequest,
                            bookings_list)
       /\ UNCHANGED <<now, services, bookings, booking_seq, pc, local, ticks,
                      timeslots, service_reviews>>

\* Mutant: listing the bookings of a user clears the cancelled ones away.
get_user_bookings_Purge(user_id, args) ==
    LET rows == {b \in bookings :
                   /\ \E s \in services : s.id = b.service_id
                   /\ \E p \in service_providers : p.id = b.provider_id
                   /\ b.user_id = user_id
                   /\ "status" \in args.keys => b.status = args.status}
    IN /\ \E bookings_list \in Orderings(rows) :
             resp' = Answer("get_user_bookings", 200, NoRequest,
                            bookings_list)
       /\ bookings' = {b \in bookings :
                          b.user_id # user_id \/ b.status # "cancelled"}
       /\ UNCHANGED <<now, services, booking_seq, pc, local, ticks,
                      timeslots, service_reviews>>

\* GET /api/booking/user/<user_id>/bookings
get_user_bookings(user_id, args) ==
    LET rows == {b \in bookings :
                   /\ \E s \in services : s.id = b.service_id
                   /\ \E p \in service_providers : p.id = b.provider_id
                   /\ b.user_id = user_id
                   /\ "status" \in args.keys => b.status = args.status}
    IN /\ \E bookings_list \in Orderings(rows) :
             resp' = Answer("get_user_bookings", 200, NoRequest,
                            bookings_list)
       /\ UNCHANGED <<now, services, bookings, booking_seq, pc, local, ticks,
                      timeslots, service_reviews>>

----------------------------------------------------------------------------
(* Reviews (main.py).  Of a row of service_reviews the model keeps the     *)
(* columns service_id, user_id and booking_id, the ones the UNIQUE         *)
(* constraint and check_user_review_status read.                           *)

\* A JSON body of POST /api/service/<service_id>/review.
Review(keys, user_id, booking_id, rating) ==
    [keys |-> keys, user_id |-> user_id, booking_id |-> booking_id,
     rating |-> rating]

\* POST /api/service/<service_id>/review.  The booking_id sent is stored as
\* it is (null when absent); nothing compares it with table bookings.  A
\* body without user_id raises KeyError.
add_service_review(service_id, data) ==
    LET row == [service_id |-> service_id, user_id |-> data.user_id,
                booking_id |-> IF "booking_id" \in data.keys
                               THEN data.booking_id ELSE NoneId]
        code == IF "user_id" \notin data.keys THEN 500
                ELSE IF data.user_id \notin users THEN 404
                ELSE IF "rating" \notin data.keys THEN 400
                ELSE IF data.rating < 1 \/ data.rating > 5 THEN 400
                ELSE IF \A s \in services : s.id # service_id THEN 404
                ELSE IF row.booking_id # NoneId /\ row \in service_reviews
                     THEN 409
                ELSE 201
    IN /\ service_reviews' = IF code = 201
                             THEN service_reviews \cup {row}
                             ELSE service_reviews
       /\ resp' = Response("add_service_review", code, NoRequest)
       /\ UNCHANGED <<now, services, bookings, booking_seq, pc, local, ticks,
                      timeslots>>

\* Mutant: the status of the booking is not looked at.
check_user_review_status_AnyStatus(booking_id, user_id) ==
    LET booking == {b \in bookings : b.id = booking_id /\ b.user_id = user_id}
        review == {r \in service_reviews : r.booking_id = booking_id}
    IN /\ resp' =
             IF booking = {}
             THEN Response("check_user_review_status", 404, NoRequest)
             ELSE IF review # {}
             THEN Answer("check_user_review_status", 200, NoRequest,
                         [has_reviewed |-> TRUE, can_review |-> FALSE])
             ELSE Answer("check_user_review_status", 200, NoRequest,
                         [has_reviewed |-> FALSE, can_review |-> TRUE])
       /\ UNCHANGED <<now, services, bookings, booking_seq, pc, local, ticks,
                      timeslots, service_reviews>>

\* GET /api/booking/<booking_id>/user/<user_id>/review-status
check_user_review_status(booking_id, user_id) ==
    LET booking == {b \in bookings : b.id = booking_id /\ b.user_id = user_id}
        review == {r \in service_reviews : r.booking_id = booking_id}
    IN /\ resp' =
             IF booking = {}
             THEN Response("check_user_review_status", 404, NoRequest)
             ELSE IF \E b \in booking : b.status # "completed"
             THEN Answer("check_user_review_status", 200, NoRequest,
                         [has_reviewed |-> FALSE, can_review |-> FALSE])
             ELSE IF review # {}
             THEN Answer("check_user_review_status", 200, NoRequest,
                         [has_reviewed |-> TRUE, can_review |-> FALSE])
             ELSE Answer("check_user_review_status", 200, NoRequest,
                         [has_reviewed |-> FALSE, can_review |-> TRUE])
       /\ UNCHANGED <<now, services, bookings, booking_seq, pc, local, ticks,
                      timeslots, service_reviews>>

----------------------------------------------------------------------------
(* create_booking under concurrent requests: each request is served by its  *)
(* own thread with its own connection, and every statement it executes is   *)
(* one step.  No transaction spans the SELECTs and the INSERT.              *)

Procs == 1..MaxProcs

NoLocal ==
    [req |-> NoRequest, provider_id |-> NoneId, price |-> 0, id |-> NoneId,
     code |-> 0]

Finish(p, code) ==
    /\ pc' = [pc EXCEPT ![p] = "done"]
    /\ local' = [local EXCEPT ![p].code = code]
    /\ resp' = Response("create_booking", code, local[p].req)

\* Lines 49-71: the request arrives and is validated.
cb_validate(p, req) ==
    /\ pc[p] = "idle"
    /\ IF Validate(req, now) # 0
       THEN /\ pc' = [pc EXCEPT ![p] = "done"]
            /\ local' = [local EXCEPT ![p].req = req,
                                      ![p].code = Validate(req, now)]
            /\ resp' = Response("create_booking", Validate(req, now), req)
       ELSE /\ pc' = [pc EXCEPT ![p] = "service"]
            /\ local' = [local EXCEPT ![p].req = req]
            /\ UNCHANGED resp
    /\ UNCHANGED <<now, services, bookings, booking_seq, ticks, timeslots, service_reviews>>

\* Lines 77-84: the service is looked up.
cb_service(p) ==
    /\ pc[p] = "service"
    /\ LET found == SelectService(services, local[p].req.service_id)
       IN IF found = {}
          THEN Finish(p, 404)
          ELSE /\ pc' = [pc EXCEPT ![p] = "check"]
               /\ local' = [local EXCEPT
                     ![p].provider_id = (CHOOSE x \in found : TRUE).provider_id,
                     ![p].price = (CHOOSE x \in found : TRUE).price]
               /\ UNCHANGED resp
    /\ UNCHANGED <<now, services, bookings, booking_seq, ticks, timeslots, service_reviews>>

\* Lines 87-97: the conflict query.
cb_check(p) ==
    /\ pc[p] = "check"
    /\ IF ConflictCount(bookings, local[p].req) > 0
       THEN Finish(p, 409)
       ELSE /\ pc' = [pc EXCEPT ![p] = "insert"]
            /\ UNCHANGED <<local, resp, service_reviews>>
    /\ UNCHANGED <<now, services, bookings, booking_seq, ticks, timeslots, service_reviews>>

\* Mutant: the id counter is not advanced by the INSERT.
cb_insert_NoAutoincrement(p) ==
    /\ pc[p] = "insert"
    /\ IF InsertFails(local[p].req)
       THEN /\ Finish(p, 500)
            /\ UNCHANGED <<bookings, booking_seq, service_reviews>>
       ELSE /\ booking_seq < MaxBookings
            /\ bookings' = bookings \cup
                   {NewBooking(booking_seq + 1, local[p].req,
                               local[p].provider_id, local[p].price)}
            /\ booking_seq' = booking_seq
            /\ pc' = [pc EXCEPT ![p] = "fetch"]
            /\ local' = [local EXCEPT ![p].id = booking_seq + 1]
            /\ UNCHANGED resp
    /\ UNCHANGED <<now, services, ticks, timeslots, service_reviews>>

\* Lines 100-117: the INSERT and its commit.
cb_insert(p) ==
    /\ pc[p] = "insert"
    /\ IF InsertFails(local[p].req)
       THEN /\ Finish(p, 500)
            /\ UNCHANGED <<bookings, booking_seq, service_reviews>>
       ELSE /\ booking_seq < MaxBookings
            /\ bookings' = bookings \cup
                   {NewBooking(booking_seq + 1, local[p].req,
                               local[p].provider_id, local[p].price)}
            /\ booking_seq' = booking_seq + 1
            /\ pc' = [pc EXCEPT ![p] = "fetch"]
            /\ local' = [local EXCEPT ![p].id = booking_seq + 1]
            /\ UNCHANGED resp
    /\ UNCHANGED <<now, services, ticks, timeslots, service_reviews>>

\* Lines 120-153: the joined row is read back and returned.
cb_fetch(p) ==
    /\ pc[p] = "fetch"
    /\ IF \E b \in bookings : b.id = local[p].id /\ Joined(b, services)
       THEN Finish(p, 201)
       ELSE Finish(p, 500)
    /\ UNCHANGED <<now, services, bookings, booking_seq, ticks, timeslots, service_reviews>>

----------------------------------------------------------------------------
(* Inputs *)

\* The catalog at start-up: one service of the approved provider.
InitialServices ==
    {[id |-> 1, provider_id |-> 1, price |-> 10, status |-> TRUE]}

\* The id of the service of the catalog, and an id no service has.
ServiceIds == {1, 2}

BookingIds == 1..(MaxBookings + 1)

\* Requests of the life-cycle specification: user 1, tomorrow, two times.
Requests ==
    {Request(AllKeys, 1, s, TomorrowText, t, NotesText) :
        s \in ServiceIds, t \in {T2359, T0000}}

\* Requests of the catalog specification: one with notes, one without.
CatalogRequests ==
    {Request(AllKeys, 1, s, TomorrowText, T2359, NotesText) : s \in ServiceIds}
    \cup {Request(required_fields, 1, s, TomorrowText, T0000, NoneText) :
             s \in ServiceIds}

\* Requests of the reservation specification: by a registered (1) and an
\* unregistered (2) user, today and tomorrow.
ReserveRequests ==
    {Request(AllKeys, u, s, d, t, NotesText) :
        u \in {1, 2},
        s \in ServiceIds,
        d \in {TodayText, TomorrowText},
        t \in {T2359, T0000}}

\* Requests that fail before the service is looked up, or at the INSERT.
FaultyRequests ==
    {Request(required_fields \ {"booking_time"}, 1, 1, TomorrowText, T2359, NoneText),
     Request(AllKeys, 1, 1, BadDateText, T2359, NotesText),
     Request(AllKeys, 1, 1, TomorrowText, BadTimeText, NotesText),
     Request(AllKeys, 1, 1, NoneText, T2359, NotesText),
     Request(AllKeys, 1, 1, TomorrowText, NoneText, NotesText),
     Request(AllKeys, NoneId, 1, TomorrowText, T2359, NotesText)}

\* Requests of the concurrent specification: one service, two slots.
ConcRequests ==
    {Request(AllKeys, 1, 1, TomorrowText, t, NotesText) : t \in {T2359, T0000}}

\* Bodies of PUT /<booking_id>/status: every valid status, an invalid one,
\* and a body without the key.
StatusData ==
    {[keys |-> {"status"}, status |-> st] : st \in valid_statuses \cup {"done"}}
    \cup {[keys |-> {}, status |-> ""]}

\* The bodies the catalog specification sends.
CatalogStatusData ==
    {[keys |-> {"status"}, status |-> st] : st \in {"cancelled", "pending", "done"}}

\* The request of the slot specification: the first hourly slot of tomorrow.
SlotRequests ==
    {Request(AllKeys, 1, 1, TomorrowText, T0000, NotesText)}

\* The bodies the slot specification sends.
SlotStatusData ==
    {[keys |-> {"status"}, status |-> st] :
        st \in {"approved", "paid_deposit", "cancelled"}}

\* Parameters of GET /timeslots: today and tomorrow, and parameters that
\* are refused (one missing, a date that does not exist, a past date).
SlotArgs ==
    {Args({"service_id", "date"}, 1, d) : d \in {TodayText, TomorrowText}}
    \cup {Args({"date"}, NoneId, TomorrowText),
          Args({"service_id", "date"}, 1, BadDateText),
          Args({"service_id", "date"}, 1, YesterdayText)}

\* Parameters of the list queries.
ListFilters ==
    {Filters({}, "", TomorrowText, TomorrowText),
     Filters({"status"}, "pending", TomorrowText, TomorrowText),
     Filters({"start_date", "end_date"}, "", TomorrowText, TomorrowText)}

\* Requests of the query specification: one calendar day and one time of
\* day, each written in two ways.
QueryRequests ==
    {Request(AllKeys, 1, 1, d, t, NotesText) :
        d \in {TomorrowText, TomorrowShortText}, t \in {T0000, T000}}

\* The bodies the query specification sends.
QueryStatusData == {[keys |-> {"status"}, status |-> "cancelled"]}

\* Requests of the re-reservation specification: one slot, asked for by a
\* registered (1) and an unregistered (2) user.
RebookRequests ==
    {Request(AllKeys, u, 1, TomorrowText, T0000, NotesText) : u \in {1, 2}}

\* The bodies the re-reservation specification sends.
RebookStatusData ==
    {[keys |-> {"status"}, status |-> st] :
        st \in {"approved", "rejected", "cancelled", "completed"}}

\* Requests of the review specification: one slot, by a registered (1) and
\* an unregistered (2) user.
ReviewRequests ==
    {Request(AllKeys, u, 1, TomorrowText, T0000, NotesText) : u \in {1, 2}}

\* The bodies the review specification sends.
ReviewStatusData == {[keys |-> {"status"}, status |-> "completed"]}

\* Bodies of POST /review: for each booking id, with a rating out of range,
\* and by a user that does not exist.
ReviewData ==
    {Review({"user_id", "booking_id", "rating"}, 1, id, 5) : id \in BookingIds}
    \cup {Review({"user_id", "booking_id", "rating"}, 1, 1, 6),
          Review({"user_id", "booking_id", "rating"}, 2, 1, 5)}

\* The user ids of the review-status requests.
ReviewUserIds == {1, 2}

ServiceData ==
    {[keys |-> {"price"}, price |-> p] : p \in Prices}
    \cup {[keys |-> {}, price |-> 0]}

----------------------------------------------------------------------------
(* Specifications *)

Init ==
    /\ now = StartInstant
    /\ services = InitialServices
    /\ bookings = {}
    /\ booking_seq = 0
    /\ resp = Response("init", 0, NoRequest)
    /\ pc = [p \in Procs |-> "idle"]
    /\ local = [p \in Procs |-> NoLocal]
    /\ ticks = 0
    /\ timeslots = NoTimeslots
    /\ service_reviews = {}

\* The life cycle of bookings, every handler one step.
Next ==
    \/ \E req \in Requests : create_booking(req)
    \/ \E id \in BookingIds, data \in StatusData : update_booking_status(id, data)

Spec == Init /\ [][Next]_vars

\* The ledger beside a changing catalog.
NextCatalog ==
    \/ \E req \in CatalogRequests : create_booking(req)
    \/ \E id \in BookingIds, data \in CatalogStatusData :
          update_booking_status(id, data)
    \/ \E id \in ServiceIds, data \in ServiceData : update_service(id, data)
    \/ \E id \in ServiceIds : delete_service(id)
    \/ \E id \in ServiceIds : toggle_service_status(id)
    \/ \E id \in BookingIds : get_booking_details(id)

SpecCatalog == Init /\ [][NextCatalog]_vars

\* Reservation against a moving clock.
NextReserve ==
    \/ \E req \in ReserveRequests \cup FaultyRequests : create_booking(req)
    \/ \E id \in ServiceIds : delete_service(id)
    \/ Tick

SpecReserve == Init /\ [][NextReserve]_vars

\* The slot listing and the queries beside a ledger that changes.  The
\* requests are served one after the other: while a get_available_timeslots
\* call is in flight, which reads nothing but the clock once its query is
\* done, only the clock moves.
NextSlots ==
    \/ /\ timeslots.pc = "idle"
       /\ \/ \E req \in SlotRequests : create_booking(req)
          \/ \E id \in BookingIds, data \in SlotStatusData :
                update_booking_status(id, data)
          \/ \E id \in BookingIds : get_booking_details(id)
          \/ \E args \in ListFilters : get_provider_bookings(1, args)
          \/ \E args \in ListFilters : get_user_bookings(1, args)
    \/ \E args \in SlotArgs : get_available_timeslots(args)
    \/ timeslots_loop
    \/ Tick

SpecSlots == Init /\ [][NextSlots]_vars

\* The list queries beside a ledger and a catalog that change.
NextQueries ==
    \/ \E req \in QueryRequests : create_booking(req)
    \/ \E id \in BookingIds, data \in QueryStatusData :
          update_booking_status(id, data)
    \/ \E id \in ServiceIds : delete_service(id)
    \/ \E args \in ListFilters : get_provider_bookings(1, args)
    \/ \E args \in ListFilters : get_user_bookings(1, args)

SpecQueries == Init /\ [][NextQueries]_vars

\* One slot reserved, released and reserved again, the service switched off
\* and on.
NextRebook ==
    \/ \E req \in RebookRequests : create_booking(req)
    \/ \E id \in BookingIds, data \in RebookStatusData :
          update_booking_status(id, data)
    \/ toggle_service_status(1)

SpecRebook == Init /\ [][NextRebook]_vars

\* Bookings completed and reviewed.
NextReview ==
    \/ \E req \in ReviewRequests : create_booking(req)
    \/ \E id \in BookingIds, data \in ReviewStatusData :
          update_booking_status(id, data)
    \/ \E data \in ReviewData : add_service_review(1, data)
    \/ \E id \in BookingIds, u \in ReviewUserIds :
          check_user_review_status(id, u)

SpecReview == Init /\ [][NextReview]_vars

\* Concurrent reservations, statement by statement.
NextConc ==
    \/ \E p \in Procs, req \in ConcRequests : cb_validate(p, req)
    \/ \E p \in Procs : cb_service(p)
    \/ \E p \in Procs : cb_check(p)
    \/ \E p \in Procs : cb_insert(p)
    \/ \E p \in Procs : cb_fetch(p)

SpecConc == Init /\ [][NextConc]_vars

----------------------------------------------------------------------------
(* Vocabulary of the properties *)

\* An active reservation, as the data model defines it.
Active(b) == b.status \in {"pending", "approved", "paid_deposit"}

SameSlot(a, b) ==
    /\ a.service_id = b.service_id
    /\ a.booking_date = b.booking_date
    /\ a.booking_time = b.booking_time

\* The request carries the four required fields, a date and a time that parse.
WellFormed(req) ==
    /\ required_fields \subseteq req.keys
    /\ req.booking_date \in DateTexts /\ DateValue[req.booking_date] # ValueError
    /\ req.booking_time \in TimeTexts /\ TimeValue[req.booking_time] # ValueError

\* The composed date-time of a well-formed request or of a stored booking.
When(x) == Combine(DateValue[x.booking_date], TimeValue[x.booking_time])

ServiceExists(service_id) == \E s \in services : s.id = service_id

\* This step is a create_booking call; resp' holds its request and its code.
CreateStep == resp'.op = "create_booking"

----------------------------------------------------------------------------
(* C1: at most one active booking per (service_id, booking_date,           *)
(* booking_time) in every state reached by create_booking and              *)
(* update_booking_status calls, each one step.                             *)
(* Fails: update_booking_status sets a cancelled booking back to pending   *)
(* although the slot was reserved again in the meantime.                   *)

C1_OneActivePerSlot ==
    \A a \in bookings, b \in bookings :
        (SameSlot(a, b) /\ Active(a) /\ Active(b)) => a.id = b.id

----------------------------------------------------------------------------
(* C2: when the requests of all processes target the same slot, the        *)
(* conflict query and the INSERT being separate steps, exactly one request *)
(* answers 201, the others answer 409 and the slot has at most one active  *)
(* booking.  Fails: both requests pass the conflict query before either    *)
(* inserts.                                                                *)

C2_ExactlyOneWins ==
    (/\ \A p \in Procs : pc[p] = "done" /\ local[p].code \in {201, 409}
     /\ \A p \in Procs, q \in Procs : SameSlot(local[p].req, local[q].req))
    => /\ Cardinality({p \in Procs : local[p].code = 201}) = 1
       /\ C1_OneActivePerSlot

----------------------------------------------------------------------------
(* C3, as stated: a create_booking call for a service/date/time triple for *)
(* which an active booking exists answers 409 and inserts nothing.         *)
(* Fails: the past-date check and the service lookup come first.           *)

HasActive(req) ==
    \E b \in bookings : SameSlot(b, req) /\ Active(b)

----------------------------------------------------------------------------
(* C4: a create_booking call that answers an error (400, 404, 409, 500)    *)
(* leaves the booking rows unchanged; a row is persisted only with 201.    *)
(* Fails: the INSERT is committed before the joined row is read back.      *)

C4_ErrorPersistsNothing ==
    [][(CreateStep /\ resp'.code # 201) => bookings' = bookings]_vars

----------------------------------------------------------------------------
(* C5: a create_booking call that answers 201 adds exactly one booking: it *)
(* is pending, its total_amount is the price of the service at that        *)
(* moment, its provider_id the provider of the service, its user_id,       *)
(* service_id, booking_date, booking_time and notes those of the request;  *)
(* the bookings that existed are unchanged.                                *)

C5_CreatedRow ==
    [][(CreateStep /\ resp'.code = 201)
       => \E b \in bookings' :
            /\ b \notin bookings
            /\ \A x \in bookings : x.id # b.id
            /\ bookings' = bookings \cup {b}
            /\ b.status = "pending"
            /\ \E s \in services : /\ s.id = resp'.req.service_id
                                   /\ b.total_amount = s.price
                                   /\ b.provider_id = s.provider_id
            /\ b.user_id = resp'.req.user_id
            /\ b.service_id = resp'.req.service_id
            /\ b.booking_date = resp'.req.booking_date
            /\ b.booking_time = resp'.req.booking_time
            /\ b.booking_notes = IF "booking_notes" \in resp'.req.keys
                                 THEN resp'.req.booking_notes ELSE NoneText]_vars

\* A second booking was created, after the price of the service changed.
C5_Witness ==
    /\ resp.op = "create_booking" /\ resp.code = 201
    /\ \E a \in bookings, b \in bookings :
          /\ a.id < b.id /\ b.id = booking_seq
          /\ a.total_amount # b.total_amount
          /\ b.booking_notes = NoneText /\ a.booking_notes = NotesText

----------------------------------------------------------------------------
(* C6: the total_amount of an existing booking never changes, whatever     *)
(* update_booking_status, update_service, toggle_service_status and        *)
(* delete_service calls follow.                                            *)

C6_AmountImmutable ==
    [][\A a \in bookings : \A b \in bookings' :
          b.id = a.id => b.total_amount = a.total_amount]_vars

\* A booking whose status was changed and whose service now has another price.
C6_Witness ==
    \E b \in bookings, s \in services :
        /\ s.id = b.service_id
        /\ s.price # b.total_amount
        /\ ~s.status
        /\ b.status = "cancelled"

----------------------------------------------------------------------------
(* C7: a booking row is never removed: a booking id in the ledger is in    *)
(* the ledger in every later state.                                        *)

C7_NeverRemoved ==
    [][\A a \in bookings : \E b \in bookings' : b.id = a.id]_vars

\* A cancelled booking whose service was deleted is still in the ledger.
C7_Witness ==
    /\ resp.op = "delete_service" /\ resp.code = 200
    /\ \E b \in bookings : b.status = "cancelled" /\ ~ServiceExists(b.service_id)

----------------------------------------------------------------------------
(* C8, as stated: create_booking answers 400 to every request whose        *)
(* composed date-time is not strictly later than the current instant, the  *)
(* date-time equal to the current instant included.                        *)
(* Fails: the code rejects booking_datetime < datetime.now() only, so a    *)
(* request for the very instant the clock shows passes the check.          *)

C8_NotLaterRejected ==
    [][(CreateStep /\ WellFormed(resp'.req))
       => /\ ~InstantLT(now, When(resp'.req)) => resp'.code = 400
          /\ InstantLT(now, When(resp'.req)) => resp'.code # 400]_vars

(* C8, amended: create_booking answers 400 to every request whose composed *)
(* date-time is strictly earlier than the current instant (a booking at    *)
(* the current minute once the clock is past the start of that minute);    *)
(* a date-time equal to the current instant or later is not rejected.      *)

C8_PastRejected ==
    [][(CreateStep /\ WellFormed(resp'.req))
       => /\ InstantLT(When(resp'.req), now) => resp'.code = 400
          /\ ~InstantLT(When(resp'.req), now) => resp'.code # 400]_vars

\* A booking for the current minute was rejected, the clock being past the
\* start of that minute.
C8_Witness ==
    /\ resp.op = "create_booking" /\ resp.code = 400
    /\ WellFormed(resp.req)
    /\ When(resp.req) = [now EXCEPT !.us = 0]
    /\ now.us = 1

----------------------------------------------------------------------------
(* C9: no booking enters the ledger with a date-time strictly earlier than *)
(* the clock value at which it is created.                                 *)

C9_NotPastAtCreation ==
    [][\A b \in bookings' :
          (\A a \in bookings : a.id # b.id) => ~InstantLT(When(b), now)]_vars

\* A booking created for the very instant the clock showed, and one created
\* for a later instant after the clock had moved.
C9_Witness ==
    /\ resp.op = "create_booking"
    /\ \E a \in bookings, b \in bookings :
          /\ InstantLT(When(a), now)
          /\ b.id = booking_seq /\ a.id < b.id
          /\ ~InstantLT(When(b), now)

----------------------------------------------------------------------------
(* C10, as stated: create_booking with a service_id that is not in the     *)
(* catalog answers 404 and inserts nothing.                                *)
(* Fails: the required-field, format and past-date checks come first and   *)
(* answer 400 (500 for a null date or time).                               *)

C10_UnknownServiceAlways404 ==
    [][(CreateStep /\ ~ServiceExists(resp'.req.service_id))
       => (resp'.code = 404 /\ bookings' = bookings)]_vars

(* C10, amended: create_booking with a service_id that is not in the       *)
(* catalog inserts nothing, and it answers 404 when the request carries    *)
(* the required fields, its date and time parse and its date-time is not   *)
(* in the past.                                                            *)

C10_UnknownService404 ==
    [][(CreateStep /\ ~ServiceExists(resp'.req.service_id))
       => /\ bookings' = bookings
          /\ (WellFormed(resp'.req) /\ ~InstantLT(When(resp'.req), now))
                => resp'.code = 404]_vars

\* A request for a free slot of a service that was deleted, answered 404.
C10_Witness ==
    /\ resp.op = "create_booking" /\ resp.code = 404
    /\ services = {}
    /\ \E s \in InitialServices : s.id = resp.req.service_id
    /\ ~HasActive(resp.req)

----------------------------------------------------------------------------
(* C11: create_booking answers 400 and inserts nothing whenever one of     *)
(* user_id, service_id, booking_date, booking_time is missing from the     *)
(* request or its date or time is not a well-formed date / hour:minute     *)
(* value, a null or a value that is no string included.                    *)
(* Fails: strptime raises TypeError, not ValueError, for a null date or    *)
(* time; only the outer handler catches it and the call answers 500.       *)

C11_Invalid400 ==
    [][(CreateStep /\ ~WellFormed(resp'.req))
       => (resp'.code = 400 /\ bookings' = bookings)]_vars

----------------------------------------------------------------------------
(* C12, as stated: update_booking_status with a booking id that is not in  *)
(* the ledger answers 404 and changes no booking; with a status outside    *)
(* the six recognized ones it answers 400 and changes no booking.          *)
(* Fails: the status is validated before the booking is looked up, so an   *)
(* unknown id with an unrecognized or absent status answers 400.           *)

BookingExists(booking_id) == \E b \in bookings : b.id = booking_id

ValidStatus(data) == "status" \in data.keys /\ data.status \in valid_statuses

C12_UnknownAlways404 ==
    [][\A id \in BookingIds, data \in StatusData :
          update_booking_status(id, data)
          => /\ ~BookingExists(id) => (resp'.code = 404 /\ bookings' = bookings)
             /\ ("status" \in data.keys /\ data.status \notin valid_statuses)
                   => (resp'.code = 400 /\ bookings' = bookings)]_vars

(* C12, amended: with a status outside the six recognized ones the call    *)
(* answers 400, whether the booking exists or not; with a recognized       *)
(* status and a booking id that is not in the ledger it answers 404; in    *)
(* both cases no booking changes.                                          *)

C12_Unknown404 ==
    [][\A id \in BookingIds, data \in StatusData :
          update_booking_status(id, data)
          => /\ (ValidStatus(data) /\ ~BookingExists(id))
                   => (resp'.code = 404 /\ bookings' = bookings)
             /\ ("status" \in data.keys /\ data.status \notin valid_statuses)
                   => (resp'.code = 400 /\ bookings' = bookings)]_vars

\* An id no booking has was answered 404 while the ledger held bookings, one
\* of them already moved off pending.
C12_Witness ==
    /\ resp.op = "update_booking_status" /\ resp.code = 404
    /\ \E b \in bookings : b.status = "approved"
    /\ \E id \in BookingIds : ~BookingExists(id)

----------------------------------------------------------------------------
(* C13: for every booking in the ledger, whatever its status, and every    *)
(* one of the six recognized statuses, update_booking_status answers 200   *)
(* and sets the status of the booking to the requested one; no transition  *)
(* is refused.                                                             *)

C13_AnyTransition ==
    [][\A id \in BookingIds, data \in StatusData :
          (update_booking_status(id, data) /\ ValidStatus(data)
                                           /\ BookingExists(id))
          => /\ resp'.code = 200
             /\ \E b \in bookings' : b.id = id /\ b.status = data.status
             /\ \A b \in bookings' : b.id = id => b.status = data.status]_vars

\* Two pending bookings of one slot: the older one was cancelled, the slot
\* reserved again, and the older one set back from cancelled to pending.
C13_Witness ==
    /\ resp.op = "update_booking_status" /\ resp.code = 200
    /\ \E a \in bookings, b \in bookings :
          /\ a.id < b.id /\ SameSlot(a, b)
          /\ a.status = "pending" /\ b.status = "completed"

----------------------------------------------------------------------------
(* Vocabulary of the slot listing *)

\* The labels of the 24 hourly slots, 00:00 through 23:00.
HourLabels == [i \in 1..24 |-> FormatTime([h |-> i - 1, mi |-> 0])]

\* The labels of a slot list, in its order.
Labels(list) == [i \in 1..Len(list) |-> list[i].time]

\* Every entry of the list is marked unavailable exactly when the ledger
\* holds a pending or approved booking of the service, the date and the time
\* of the entry.
MarkedByRule(list, args) ==
    \A i \in 1..Len(list) :
        list[i].available
        <=> ~\E b \in bookings :
                 /\ b.service_id = args.service_id
                 /\ b.booking_date = args.booking_date
                 /\ b.booking_time = list[i].time
                 /\ b.status \in {"pending", "approved"}

\* This step ends a get_available_timeslots call whose parameters passed.
SlotsAnswered == timeslots.pc = "loop" /\ timeslots'.pc = "idle"

----------------------------------------------------------------------------
(* C14: get_available_timeslots returns a list of hourly slots in which a  *)
(* slot is marked unavailable if and only if a pending or approved booking *)
(* exists for the service, the date and the time of the slot.              *)
(* Fails with C15: the list under construction is marked by this rule, but *)
(* the loop that builds it never ends, so no list is returned; the call    *)
(* ends with 500 when the list no longer fits in memory.                   *)

C14_SlotMarks ==
    [][timeslots.pc = "loop"
       => /\ MarkedByRule(timeslots'.all_slots, timeslots.args)
          /\ SlotsAnswered
                => /\ resp'.code = 200
                   /\ resp'.body = timeslots.all_slots]_vars

----------------------------------------------------------------------------
(* C15: for a date later than today the list of get_available_timeslots    *)
(* holds the 24 labels 00:00 through 23:00, each once, in ascending order, *)
(* and the call is answered 200 with that list.                            *)
(* Fails: one hour after 23:00 the loop variable is 00:00 again, which is  *)
(* not after the end time 23:00; the loop appends a 25th entry and goes on *)
(* until the append fails.                                                 *)

C15_TwentyFourSlots ==
    /\ (timeslots.pc = "loop" /\ DateLT(DateOf(now), timeslots.booking_date))
          => /\ Len(timeslots.all_slots) <= 24
             /\ \A i \in 1..Len(timeslots.all_slots) :
                   timeslots.all_slots[i].time = HourLabels[i]
    /\ (/\ resp.op = "get_available_timeslots" /\ resp.code \notin {0, 400}
        /\ DateLT(DateOf(now), DateValue[resp.req.booking_date]))
          => (resp.code = 200 /\ Labels(resp.body) = HourLabels)

----------------------------------------------------------------------------
(* C16: when the date is today, get_available_timeslots lists a slot only  *)
(* if its start is strictly after the current time, lists no slot twice,   *)
(* and the call is answered 200 with that list.                            *)
(* Fails with C15: after 23:00 the loop starts the day again, appends the  *)
(* slots that are still to come a second time, and never returns.          *)

C16_TodayOnlyFuture ==
    [][(timeslots.pc = "loop" /\ timeslots.booking_date = DateOf(now))
       => /\ timeslots'.all_slots # timeslots.all_slots
                => InstantLT(now, Combine(timeslots.booking_date,
                                          timeslots.current_time))
          /\ \A i \in 1..Len(timeslots'.all_slots) :
                \A j \in 1..Len(timeslots'.all_slots) :
                   i < j => timeslots'.all_slots[i].time
                               # timeslots'.all_slots[j].time
          /\ SlotsAnswered => resp'.code = 200]_vars

----------------------------------------------------------------------------
(* C17: get_available_timeslots, get_booking_details, get_provider_bookings *)
(* and get_user_bookings never change the ledger, whatever their input and  *)
(* whatever they answer.                                                    *)

ReadOps ==
    {"get_available_timeslots", "get_booking_details",
     "get_provider_bookings", "get_user_bookings"}

C17_ReadsChangeNothing ==
    [][resp'.op \in ReadOps
       => (bookings' = bookings /\ booking_seq' = booking_seq)]_vars

\* A query answered with an error while the ledger held two bookings.
C17_Witness ==
    /\ resp.op \in ReadOps /\ resp.code \in {400, 404, 500}
    /\ Cardinality(bookings) = 2
    /\ \E b \in bookings : b.status = "cancelled"

----------------------------------------------------------------------------
(* C18: get_available_timeslots answers 400 when service_id or date is     *)
(* missing, when the date is malformed or before the current date, and     *)
(* answers 200 with a slot list in every other case.                       *)
(* Fails with C15: the 400 answers are given, but a call whose parameters  *)
(* pass never reaches the return of the list; it ends with 500.            *)

C18_Slots400Or200 ==
    [][resp'.op = "get_available_timeslots"
       => /\ timeslots.pc = "idle"
                => (resp'.code = 400 <=> ValidateArgs(resp'.req, now) = 400)
          /\ resp'.code \in {0, 400, 200}]_vars

----------------------------------------------------------------------------
(* C19: get_booking_details answers 200 with the record of the booking for *)
(* every booking id in the ledger, and 404 only when the ledger holds no   *)
(* booking of that id, also after delete_service removed the service of    *)
(* the booking.                                                            *)
(* Fails: the query joins the booking with its service, user and provider, *)
(* so a booking whose service was deleted is not found and the call        *)
(* answers 404.                                                            *)

C19_DetailsOfEveryBooking ==
    [][\A id \in BookingIds :
          get_booking_details(id)
          => /\ resp'.code = 200 <=> BookingExists(id)
             /\ resp'.code = 404 <=> ~BookingExists(id)
             /\ BookingExists(id)
                   => (resp'.body \in bookings /\ resp'.body.id = id)]_vars

----------------------------------------------------------------------------
(* C20: get_booking_details for the id a create_booking call has just      *)
(* returned with 201 answers 200 with a record whose user_id, service_id,  *)
(* booking_date, booking_time and notes are those of the request, whose    *)
(* status is pending and whose total_amount is the price of the service    *)
(* read at creation.                                                       *)

C20_RoundTrip ==
    [][\A id \in BookingIds :
          (/\ resp.op = "create_booking" /\ resp.code = 201
           /\ id = booking_seq
           /\ get_booking_details(id))
          => /\ resp'.code = 200
             /\ resp'.body.id = id
             /\ resp'.body.user_id = resp.req.user_id
             /\ resp'.body.service_id = resp.req.service_id
             /\ resp'.body.booking_date = resp.req.booking_date
             /\ resp'.body.booking_time = resp.req.booking_time
             /\ resp'.body.booking_notes =
                   IF "booking_notes" \in resp.req.keys
                   THEN resp.req.booking_notes ELSE NoneText
             /\ resp'.body.status = "pending"
             /\ \E s \in services : /\ s.id = resp.req.service_id
                                     /\ resp'.body.total_amount = s.price]_vars

\* The record of the booking created last was returned: it is pending, it
\* carries notes, and its amount is a price set after the first booking was
\* created.
C20_Witness ==
    /\ resp.op = "get_booking_details" /\ resp.code = 200
    /\ resp.body.id = booking_seq
    /\ resp.body.status = "pending"
    /\ resp.body.booking_notes = NotesText
    /\ \E a \in bookings :
          a.id < resp.body.id /\ a.total_amount # resp.body.total_amount

----------------------------------------------------------------------------
(* Vocabulary of the list queries *)

\* The booking matches the optional status and date-range parameters, the
\* dates taken as calendar dates.
MatchesFilters(b, args) ==
    /\ "status" \in args.keys => b.status = args.status
    /\ "start_date" \in args.keys
          => ~DateLT(DateValue[b.booking_date], DateValue[args.start_date])
    /\ "end_date" \in args.keys
          => ~DateLT(DateValue[args.end_date], DateValue[b.booking_date])

\* Booking x is earlier than booking y.
Earlier(x, y) ==
    \/ DateLT(DateValue[x.booking_date], DateValue[y.booking_date])
    \/ /\ DateValue[x.booking_date] = DateValue[y.booking_date]
       /\ ~TimeLE(TimeValue[y.booking_time], TimeValue[x.booking_time])

\* The list holds exactly the bookings of the set, each once, latest first.
ListsExactly(list, want) ==
    /\ Len(list) = Cardinality(want)
    /\ {list[i] : i \in 1..Len(list)} = want
    /\ \A i \in 1..Len(list), j \in 1..Len(list) :
          i < j => ~Earlier(list[i], list[j])

----------------------------------------------------------------------------
(* C21: get_provider_bookings and get_user_bookings answer 200 with        *)
(* exactly the bookings of the ledger of that provider (user) that match   *)
(* the optional status and date-range parameters, each once, ordered by    *)
(* date descending then time descending, also after the service of one of  *)
(* them was deleted.                                                       *)
(* Fails: both queries join the bookings with their services, so the       *)
(* bookings of a deleted service are missing from the list.                *)

C21_ListsTheLedger ==
    [][\A args \in ListFilters :
          /\ get_provider_bookings(1, args)
                => /\ resp'.code = 200
                   /\ ListsExactly(resp'.body,
                         {b \in bookings : /\ b.provider_id = 1
                                           /\ MatchesFilters(b, args)})
          /\ get_user_bookings(1, args)
                => /\ resp'.code = 200
                   /\ ListsExactly(resp'.body,
                         {b \in bookings :
                             /\ b.user_id = 1
                             /\ "status" \in args.keys
                                   => b.status = args.status})]_vars

----------------------------------------------------------------------------
(* C22: a slot is a service, a calendar date and a time of day, whatever   *)
(* the texts they were written with: create_booking for a service, a date  *)
(* and a time that parse to those of an active booking answers 409 and     *)
(* inserts nothing.                                                        *)
(* Fails: the conflict query compares the texts stored with the texts      *)
(* sent, so 2026-12-1 is not taken for 2026-12-01, nor 9:00 for 09:00.     *)

\* The same service, calendar date and time of day.
SameSlotValue(a, b) ==
    /\ a.service_id = b.service_id
    /\ DateValue[a.booking_date] = DateValue[b.booking_date]
    /\ TimeValue[a.booking_time] = TimeValue[b.booking_time]

C22_SlotByValue ==
    [][(/\ CreateStep /\ WellFormed(resp'.req)
        /\ ~InstantLT(When(resp'.req), now)
        /\ ServiceExists(resp'.req.service_id)
        /\ \E b \in bookings : Active(b) /\ SameSlotValue(b, resp'.req))
       => (resp'.code = 409 /\ bookings' = bookings)]_vars

----------------------------------------------------------------------------
(* C23: once every booking of a slot is rejected, cancelled or completed,  *)
(* a create_booking call for that slot, the service existing and the       *)
(* date-time lying in the future, answers 201.                             *)
(* Fails with C4: for a user_id that names no user the slot is free and    *)
(* the row is inserted, but the joined row is not found and the call       *)
(* answers 500.                                                            *)

Released(b) == b.status \in {"rejected", "cancelled", "completed"}

C23_ReservableAgain ==
    [][(/\ CreateStep /\ WellFormed(resp'.req)
        /\ InstantLT(now, When(resp'.req))
        /\ ServiceExists(resp'.req.service_id)
        /\ \E b \in bookings : SameSlotValue(b, resp'.req)
        /\ \A b \in bookings : SameSlotValue(b, resp'.req) => Released(b))
       => resp'.code = 201]_vars

----------------------------------------------------------------------------
(* C24: when get_available_timeslots marks a slot of an existing service   *)
(* available, a create_booking call for that service, date and time made   *)
(* in the same state of the ledger and of the clock is not answered 409.   *)
(* Checked on the entries of the list the call builds, for the slot times  *)
(* the requests of the model carry.                                        *)
(* Fails: the listing takes pending and approved bookings for booked, the  *)
(* conflict query of create_booking takes paid_deposit bookings too.       *)

\* The request for the slot of an entry of the list of the call in flight.
SlotRequest(entry) ==
    Request(AllKeys, 1, timeslots.args.service_id,
            timeslots.args.booking_date, entry.time, NotesText)

C24_AvailableNot409 ==
    timeslots.pc = "loop"
    => \A i \in 1..Len(timeslots.all_slots) :
          (/\ timeslots.all_slots[i].available
           /\ timeslots.all_slots[i].time \in TimeTexts
           /\ ServiceExists(timeslots.args.service_id))
          => CreateBookingResult(SlotRequest(timeslots.all_slots[i]), now,
                                 services, bookings, booking_seq).code # 409

----------------------------------------------------------------------------
(* C25: in every reachable state the status of every booking is one of     *)
(* pending, approved, rejected, completed, cancelled, paid_deposit.        *)

C25_StatusRecognized ==
    \A b \in bookings : b.status \in valid_statuses

\* An unrecognized status was refused while the ledger held bookings that
\* had been moved to other statuses.
C25_Witness ==
    /\ resp.op = "update_booking_status" /\ resp.code = 400
    /\ \E a \in bookings, b \in bookings :
          a.status = "paid_deposit" /\ b.status = "completed"

----------------------------------------------------------------------------
(* C26: an update_booking_status call that answers 200 changes the status  *)
(* of the booking of the given id and nothing else: the other fields of    *)
(* that booking and every other booking are unchanged, and no booking is   *)
(* added or removed.  (The columns created_at and updated_at are not part  *)
(* of the model.)                                                          *)

----------------------------------------------------------------------------
(* C27: create_booking applies its checks in the order required fields,    *)
(* format of date and time, past date-time, existence of the service,      *)
(* conflict, and a request that fails several reports the first: a missing *)
(* field answers 400 whatever else is wrong; a date or time that does not  *)
(* parse is never answered 404, 409 or 201; a past date-time answers 400   *)
(* also for an unknown service; an unknown service answers 404 also when   *)
(* the slot holds an active booking, never 409.                            *)

C27_CheckOrder ==
    [][CreateStep
       => /\ ~(required_fields \subseteq resp'.req.keys) => resp'.code = 400
          /\ ~WellFormed(resp'.req)
                => (resp'.code \notin {201, 404, 409} /\ bookings' = bookings)
          /\ (WellFormed(resp'.req) /\ InstantLT(When(resp'.req), now))
                => resp'.code = 400
          /\ (/\ WellFormed(resp'.req) /\ ~InstantLT(When(resp'.req), now)
              /\ ~ServiceExists(resp'.req.service_id))
                => resp'.code = 404
          /\ (/\ WellFormed(resp'.req) /\ ~InstantLT(When(resp'.req), now)
              /\ ServiceExists(resp'.req.service_id)
              /\ HasActive(resp'.req))
                => resp'.code = 409
          /\ ~ServiceExists(resp'.req.service_id) => resp'.code # 409]_vars

\* A request for a past date-time, for a service that was deleted and a slot
\* that holds an active booking, was answered 400.
C27_Witness ==
    /\ resp.op = "create_booking" /\ resp.code = 400
    /\ WellFormed(resp.req) /\ InstantLT(When(resp.req), now)
    /\ ~ServiceExists(resp.req.service_id)
    /\ HasActive(resp.req)

----------------------------------------------------------------------------
(* C28: booking ids are unique and grow with the order of creation, also   *)
(* when create_booking requests interleave: no two bookings share an id,   *)
(* a new booking gets an id above every id given before, two requests      *)
(* never get the same id, and the id of a request answered 201 is the id   *)
(* of the row that holds what the request sent.                            *)

\* The request of process p has been given an id by its INSERT.
HasId(p) == pc[p] \in {"fetch", "done"} /\ local[p].id # NoneId

IdsUnique ==
    /\ \A a \in bookings, b \in bookings : a.id = b.id => a = b
    /\ \A b \in bookings : b.id \in 1..booking_seq
    /\ \A p \in Procs, q \in Procs :
          (p # q /\ HasId(p) /\ HasId(q)) => local[p].id # local[q].id
    /\ \A p \in Procs :
          (pc[p] = "done" /\ local[p].code = 201)
          => \E b \in bookings :
                /\ b.id = local[p].id
                /\ b.user_id = local[p].req.user_id
                /\ SameSlot(b, local[p].req)

C28_IdsUniqueIncreasing ==
    [][/\ IdsUnique'
       /\ \A b \in bookings' \ bookings :
             /\ b.id > booking_seq
             /\ \A a \in bookings : a.id < b.id]_vars

\* Two interleaved requests were both answered 201, with different ids.
C28_Witness ==
    /\ \A p \in Procs : pc[p] = "done" /\ local[p].code = 201
    /\ \E p \in Procs, q \in Procs : local[p].id < local[q].id
    /\ Cardinality(bookings) >= 2

----------------------------------------------------------------------------
(* C29: create_booking does not read the active flag of the service: for   *)
(* an existing service that toggle_service_status has switched off, a      *)
(* request for a free slot and a future date-time answers 201.             *)
(* Fails with C4: the flag is indeed not read, but for a user_id that      *)
(* names no user the row is inserted, the joined row is not found and the  *)
(* call answers 500.                                                       *)

C29_InactiveService201 ==
    [][(/\ CreateStep /\ WellFormed(resp'.req)
        /\ InstantLT(now, When(resp'.req))
        /\ \E s \in services : s.id = resp'.req.service_id /\ ~s.status
        /\ ~\E b \in bookings : Active(b) /\ SameSlotValue(b, resp'.req))
       => resp'.code = 201]_vars

----------------------------------------------------------------------------
(* C30: check_user_review_status answers 404 exactly when the ledger holds *)
(* no booking of the given id and user; otherwise it answers 200 with      *)
(* can_review true exactly when the booking is completed and no review row *)
(* references its id, so can_review is false for every other status.       *)

C30_CanReview ==
    [][\A id \in BookingIds, u \in ReviewUserIds :
          check_user_review_status(id, u)
          => LET owned == {b \in bookings : b.id = id /\ b.user_id = u}
             IN /\ resp'.code = 404 <=> owned = {}
                /\ owned # {}
                      => /\ resp'.code = 200
                         /\ resp'.body.can_review
                               <=> /\ \A b \in owned : b.status = "completed"
                                   /\ \A r \in service_reviews :
                                         r.booking_id # id]_vars

\* A completed booking may be reviewed while the other booking of the
\* ledger, completed too, has its review.
C30_Witness ==
    /\ resp.op = "check_user_review_status" /\ resp.code = 200
    /\ resp.body.can_review
    /\ \E a \in bookings, b \in bookings :
          /\ a.id # b.id
          /\ a.status = "completed" /\ b.status = "completed"
          /\ \E r \in service_reviews : r.booking_id = a.id
          /\ \A r \in service_reviews : r.booking_id # b.id

====
